---------------------------- MODULE Spec2Model ----------------------------
(* A model of export_3d_obj.py: reshape_to_grid, normalize_and_scale,      *)
(* create_obj_mesh and the export loop of main.                            *)
(*                                                                         *)
(* Conventions.  Grids are functions [0..nrows-1 -> [0..ncols-1 -> value]] *)
(* indexed as numpy indexes them.  Python's None is the empty tuple <<>>   *)
(* (both are falsy).  Numbers are exact: a float is modelled by the real   *)
(* number it stands for, kept as an integer count of a fixed unit.         *)
(* Horizontal coordinates are counted in half millimetres, so that main's  *)
(* xy_scale values 1.5, 2.0, 3.0, 5.0 are the integers 3, 4, 6, 10; on     *)
(* such values the "%.6f" formatting of a vertex line is exact.            *)
EXTENDS Integers, Sequences, FiniteSets, TLC

VARIABLES
    (* ---- create_obj_mesh: arguments ---- *)
    lon_grid, lat_grid, height_grid,   \* the caller's grids
    output_path,                       \* stem of the .obj file
    lon_range, lat_range,              \* <<>> (None) or <<min, max>>
    xy_scale, add_base,
    (* ---- create_obj_mesh: locals ---- *)
    pc,                                \* position in create_obj_mesh
    l_lon, l_lat, l_height,            \* the names lon_grid.. as rebound by the crop
    x_coords, y_coords, z_coords,
    vertex_count, base_vertex_start, vertex_map, face_count,
    obj_file,                          \* lines written to the open .obj file
    retval,                            \* value returned by create_obj_mesh
    (* ---- file system ---- *)
    fs,                                \* [<<stem, ext>> -> sequence of lines]
    (* ---- main ---- *)
    main_pc, model_idx, saved,
    (* ---- reshape_to_grid ---- *)
    df,                                \* the samples: records lat, lon, potential
    r_pc,                              \* position in reshape_to_grid
    unique_lats, unique_lons,
    r_lon_grid, r_lat_grid,            \* reshape_to_grid's lon_grid, lat_grid
    potential_grid,
    r_result,                          \* "ok", or the exception raised
    (* ---- normalize_and_scale (its argument is potential_grid) ---- *)
    base_thickness, height_scale, max_height, smooth_iterations, min_feature_size,
    n_pc,                              \* position in normalize_and_scale
    pot_log, pot_normalized, heights,
    n_retval                           \* the grid returned, None before

mesh_args   == <<lon_grid, lat_grid, height_grid, output_path, lon_range,
                 lat_range, xy_scale, add_base>>
mesh_locals == <<l_lon, l_lat, l_height, x_coords, y_coords, z_coords,
                 vertex_count, base_vertex_start, vertex_map, face_count,
                 obj_file, retval>>
main_vars   == <<main_pc, model_idx, saved>>
reshape_vars == <<df, r_pc, unique_lats, unique_lons, r_lon_grid, r_lat_grid,
                  potential_grid, r_result>>
mesh_vars   == <<mesh_args, pc, mesh_locals, fs, main_vars>>
norm_vars   == <<base_thickness, height_scale, max_height, smooth_iterations,
                 min_feature_size, n_pc, pot_log, pot_normalized, heights, n_retval>>
vars        == <<mesh_vars, reshape_vars, norm_vars>>

-----------------------------------------------------------------------------
(* Bounds of the model *)
MaxRows  == 3
MaxCols  == 3
MaxHoles == 2
MaxSamples == 5
MaxSmooth == 1

-----------------------------------------------------------------------------
(* Values *)

\* float('nan'), as tested by np.isnan
NaN == -1000000

\* float('-inf'): below every number
NegInf == -2000000

\* the "no vertex" marker of vertex_map
NoVertex == -1

None == <<>>

isnan(v) == v = NaN

Truthy(t) == t /= <<>>

SetMin(S) == CHOOSE m \in S : \A n \in S : m <= n

SetMax(S) == CHOOSE m \in S : \A n \in S : m >= n

Shape(g) == <<Cardinality(DOMAIN g),
              IF Cardinality(DOMAIN g) = 0 THEN 0 ELSE Cardinality(DOMAIN g[0])>>

GridValues(g) == {g[i][j] : i \in DOMAIN g, j \in 0..(Shape(g)[2] - 1)}

\* np.meshgrid(lons, lats): sequences (1-based) to 0-based grids
meshgrid_lon(lons, lats) ==
    [i \in 0..(Len(lats) - 1) |-> [j \in 0..(Len(lons) - 1) |-> lons[j + 1]]]

meshgrid_lat(lons, lats) ==
    [i \in 0..(Len(lats) - 1) |-> [j \in 0..(Len(lons) - 1) |-> lats[i + 1]]]

\* g[row_slice, col_slice]
Slice(g, r0, r1, c0, c1) ==
    [i \in 0..(r1 - r0) |-> [j \in 0..(c1 - c0) |-> g[r0 + i][c0 + j]]]

-----------------------------------------------------------------------------
(* create_obj_mesh: the loops, as functions of the state they read *)

\* the cell visited at step k (k >= 1) of "for i in range(nr): for j in range(nc)"
CellRow(k, nc) == (k - 1) \div nc
CellCol(k, nc) == (k - 1) % nc

\* The "v" lines written by the first k steps of a vertex loop.
RECURSIVE VertexLines(_, _, _, _, _, _)
VertexLines(x, y, z, nc, k, base) ==
    IF k = 0 THEN <<>>
    ELSE LET i    == CellRow(k, nc)
             j    == CellCol(k, nc)
             prev == VertexLines(x, y, z, nc, k - 1, base)
         IN  IF ~isnan(z[i][j])
             THEN Append(prev, <<"v", x[i][j], y[i][j], IF base THEN 0 ELSE z[i][j]>>)
             ELSE prev

\* vertex_idx after the first k steps of the vertex_map loop
RECURSIVE VertexIdxAfter(_, _, _)
VertexIdxAfter(z, nc, k) ==
    IF k = 0 THEN 1
    ELSE VertexIdxAfter(z, nc, k - 1)
         + (IF ~isnan(z[CellRow(k, nc)][CellCol(k, nc)]) THEN 1 ELSE 0)

\* variant: the index is the cell's row-major position, holes counted
BuildVertexMap_Dense(z, nr, nc) ==
    [i \in 0..(nr - 1) |-> [j \in 0..(nc - 1) |->
        IF ~isnan(z[i][j]) THEN i * nc + j + 1 ELSE NoVertex]]

BuildVertexMap(z, nr, nc) ==
    [i \in 0..(nr - 1) |-> [j \in 0..(nc - 1) |->
        IF ~isnan(z[i][j]) THEN VertexIdxAfter(z, nc, i * nc + j) ELSE NoVertex]]

\* variant: only the first triangle of a top quad
TopQuadFaces_OneTriangle(v1, v2, v3, v4) == << <<"f", v1, v2, v3>> >>

\* the two triangles of one top quad, and of one base quad
TopQuadFaces(v1, v2, v3, v4) == << <<"f", v1, v2, v3>>, <<"f", v1, v3, v4>> >>

BaseQuadFaces(b1, b2, b3, b4) == << <<"f", b1, b3, b2>>, <<"f", b1, b4, b3>> >>

\* variant: the fourth corner is not tested
AllCorners_ThreeTested(v1, v2, v3, v4) == v1 > 0 /\ v2 > 0 /\ v3 > 0

AllCorners(v1, v2, v3, v4) == v1 > 0 /\ v2 > 0 /\ v3 > 0 /\ v4 > 0

\* The "f" lines written by the first k steps of a quad loop over
\* range(nr - 1) x range(nc - 1); off = base_vertex_start - 1 for the base.
RECURSIVE QuadLines(_, _, _, _, _)
QuadLines(vm, nc, k, base, off) ==
    IF k = 0 THEN <<>>
    ELSE LET i    == CellRow(k, nc - 1)
             j    == CellCol(k, nc - 1)
             v1   == vm[i][j]
             v2   == vm[i][j + 1]
             v3   == vm[i + 1][j + 1]
             v4   == vm[i + 1][j]
             prev == QuadLines(vm, nc, k - 1, base, off)
         IN  IF AllCorners(v1, v2, v3, v4)
             THEN prev \o (IF base
                           THEN BaseQuadFaces(v1 + off, v2 + off, v3 + off, v4 + off)
                           ELSE TopQuadFaces(v1, v2, v3, v4))
             ELSE prev

\* variant: the first triangle of the front edge written twice
FrontWallFaces_Repeated(t1, t2, b1, b2) == << <<"f", t1, b1, b2>>, <<"f", t1, b1, b2>> >>

\* the two triangles of one wall segment, per edge
FrontWallFaces(t1, t2, b1, b2) == << <<"f", t1, b1, b2>>, <<"f", t1, b2, t2>> >>
BackWallFaces(t1, t2, b1, b2)  == << <<"f", t1, t2, b2>>, <<"f", t1, b2, b1>> >>
LeftWallFaces(t1, t2, b1, b2)  == << <<"f", t1, t2, b2>>, <<"f", t1, b2, b1>> >>

\* variant: the right edge wound like the left edge
RightWallFaces_AsLeft(t1, t2, b1, b2) == << <<"f", t1, t2, b2>>, <<"f", t1, b2, b1>> >>

RightWallFaces(t1, t2, b1, b2) == << <<"f", t1, b2, t2>>, <<"f", t1, b1, b2>> >>

WallFaces(edge, t1, t2, b1, b2) ==
    CASE edge = "front" -> FrontWallFaces(t1, t2, b1, b2)
      [] edge = "back"  -> BackWallFaces(t1, t2, b1, b2)
      [] edge = "left"  -> LeftWallFaces(t1, t2, b1, b2)
      [] edge = "right" -> RightWallFaces(t1, t2, b1, b2)

\* the cell visited at step k (k >= 1) of an edge loop, and its successor
EdgeCell(edge, k, nr, nc) ==
    CASE edge = "front" -> <<0, k - 1>>
      [] edge = "back"  -> <<nr - 1, k - 1>>
      [] edge = "left"  -> <<k - 1, 0>>
      [] edge = "right" -> <<k - 1, nc - 1>>

EdgeNext(edge, k, nr, nc) ==
    CASE edge = "front" -> <<0, k>>
      [] edge = "back"  -> <<nr - 1, k>>
      [] edge = "left"  -> <<k, 0>>
      [] edge = "right" -> <<k, nc - 1>>

EdgeSteps(edge, nr, nc) == IF edge \in {"front", "back"} THEN nc - 1 ELSE nr - 1

\* The "f" lines written by the first k steps of one side-wall loop.
RECURSIVE WallLines(_, _, _, _, _, _)
WallLines(edge, vm, nr, nc, k, bvs) ==
    IF k = 0 THEN <<>>
    ELSE LET c1     == EdgeCell(edge, k, nr, nc)
             c2     == EdgeNext(edge, k, nr, nc)
             v_top1 == vm[c1[1]][c1[2]]
             v_top2 == vm[c2[1]][c2[2]]
             prev   == WallLines(edge, vm, nr, nc, k - 1, bvs)
         IN  IF v_top1 > 0 /\ v_top2 > 0
             THEN prev \o WallFaces(edge, v_top1, v_top2,
                                    v_top1 + bvs - 1, v_top2 + bvs - 1)
             ELSE prev

\* the region filter: cells inside the inclusive window
RegionMask(lon, lat, lonr, latr) ==
    LET lon_min == IF Truthy(lonr) THEN lonr[1] ELSE -180
        lon_max == IF Truthy(lonr) THEN lonr[2] ELSE 180
        lat_min == IF Truthy(latr) THEN latr[1] ELSE -90
        lat_max == IF Truthy(latr) THEN latr[2] ELSE 90
    IN  [i \in DOMAIN lon |-> [j \in DOMAIN lon[i] |->
            lon[i][j] >= lon_min /\ lon[i][j] <= lon_max /\
            lat[i][j] >= lat_min /\ lat[i][j] <= lat_max]]

\* np.where(mask.any(axis=1))[0] and np.where(mask.any(axis=0))[0]
MaskRows(mask) == {i \in DOMAIN mask : \E j \in DOMAIN mask[i] : mask[i][j]}
MaskCols(mask) == {j \in DOMAIN mask[0] : \E i \in DOMAIN mask : mask[i][j]}

\* g * s - (g * s).min()
ScaleShift(g, s) ==
    LET scaled == [i \in DOMAIN g |-> [j \in DOMAIN g[i] |-> g[i][j] * s]]
        lo     == SetMin(GridValues(scaled))
    IN  [i \in DOMAIN g |-> [j \in DOMAIN g[i] |-> scaled[i][j] - lo]]

\* open(path, 'w') creates or truncates; the content is whatever is written
WriteFile(files, name, content) ==
    [n \in DOMAIN files \cup {name} |-> IF n = name THEN content ELSE files[n]]

MtlLines == << <<"#", 0, 0, 0>>, <<"newmtl", 0, 0, 0>>, <<"Ka", 0, 0, 0>>,
               <<"Kd", 0, 0, 0>>, <<"Ks", 0, 0, 0>>, <<"Ns", 0, 0, 0>> >>

HeaderLines == << <<"#", 0, 0, 0>>, <<"#", 0, 0, 0>>, <<"#", 0, 0, 0>>,
                  <<"mtllib", 0, 0, 0>>, <<"usemtl", 0, 0, 0>> >>

-----------------------------------------------------------------------------
(* create_obj_mesh, one action per block of the function *)

nrows == Shape(l_height)[1]
ncols == Shape(l_height)[2]

HasWindow(lonr, latr) == Truthy(lonr) \/ Truthy(latr)

\* variant: the slice is stored into the array the caller passed
CallerGrid_Sliced(grid, view) == view

\* "lon_grid = lon_grid[row_slice, col_slice]" binds the function's own name
\* to the slice (a view); the array the caller passed keeps its shape and cells
CallerGrid(grid, view) == grid

\* "Filter to region if specified": crop to the bounding box of the window,
\* or print an error and return None when the window holds no cell.
FilterRegion ==
    /\ pc = "filter"
    /\ IF HasWindow(lon_range, lat_range)
       THEN LET mask == RegionMask(lon_grid, lat_grid, lon_range, lat_range)
                rows == MaskRows(mask)
                cols == MaskCols(mask)
            IN  IF rows = {} \/ cols = {}
                THEN /\ pc' = "returned"
                     /\ retval' = None
                     /\ UNCHANGED <<l_lon, l_lat, l_height>>
                     /\ UNCHANGED <<lon_grid, lat_grid, height_grid>>
                ELSE /\ l_lon' = Slice(lon_grid, SetMin(rows), SetMax(rows),
                                       SetMin(cols), SetMax(cols))
                     /\ l_lat' = Slice(lat_grid, SetMin(rows), SetMax(rows),
                                       SetMin(cols), SetMax(cols))
                     /\ l_height' = Slice(height_grid, SetMin(rows), SetMax(rows),
                                          SetMin(cols), SetMax(cols))
                     /\ lon_grid' = CallerGrid(lon_grid, l_lon')
                     /\ lat_grid' = CallerGrid(lat_grid, l_lat')
                     /\ height_grid' = CallerGrid(height_grid, l_height')
                     /\ pc' = "coords"
                     /\ UNCHANGED retval
       ELSE /\ l_lon' = lon_grid
            /\ l_lat' = lat_grid
            /\ l_height' = height_grid
            /\ pc' = "coords"
            /\ UNCHANGED <<retval, lon_grid, lat_grid, height_grid>>
    /\ UNCHANGED <<output_path, lon_range, lat_range, xy_scale, add_base,
                   x_coords, y_coords, z_coords, vertex_count,
                   base_vertex_start, vertex_map, face_count, obj_file, fs, main_vars, reshape_vars, norm_vars>>

\* "Scale coordinates to mm" and "Shift to positive coordinates"
ScaleCoords ==
    /\ pc = "coords"
    /\ x_coords' = ScaleShift(l_lon, xy_scale)
    /\ y_coords' = ScaleShift(l_lat, xy_scale)
    /\ z_coords' = l_height
    /\ pc' = "open"
    /\ UNCHANGED <<mesh_args, l_lon, l_lat, l_height, vertex_count, base_vertex_start,
                   vertex_map, face_count, obj_file, retval, fs, main_vars, reshape_vars, norm_vars>>

\* open(output_path, 'w') and the header
WriteHeader ==
    /\ pc = "open"
    /\ fs' = WriteFile(fs, <<output_path, "obj">>, <<>>)
    /\ obj_file' = HeaderLines
    /\ pc' = "top_vertices"
    /\ UNCHANGED <<mesh_args, l_lon, l_lat, l_height, x_coords, y_coords, z_coords,
                   vertex_count, base_vertex_start, vertex_map, face_count, retval,
                   main_vars, reshape_vars, norm_vars>>

\* "Write vertices for top surface"
WriteTopVertices ==
    /\ pc = "top_vertices"
    /\ LET lines == VertexLines(x_coords, y_coords, z_coords, ncols, nrows * ncols, FALSE)
       IN  /\ obj_file' = obj_file \o lines
           /\ vertex_count' = Len(lines)
           /\ base_vertex_start' = Len(lines) + 1
    /\ pc' = "base_vertices"
    /\ UNCHANGED <<mesh_args, l_lon, l_lat, l_height, x_coords, y_coords, z_coords,
                   vertex_map, face_count, retval, fs, main_vars, reshape_vars, norm_vars>>

\* "Write vertices for bottom base (if requested)" and the vertex count comment
WriteBaseVertices ==
    /\ pc = "base_vertices"
    /\ LET lines == IF add_base
                    THEN VertexLines(x_coords, y_coords, z_coords, ncols, nrows * ncols, TRUE)
                    ELSE <<>>
       IN  /\ vertex_count' = vertex_count + Len(lines)
           /\ obj_file' = obj_file \o lines \o << <<"#", vertex_count + Len(lines), 0, 0>> >>
    /\ pc' = "vertex_map"
    /\ UNCHANGED <<mesh_args, l_lon, l_lat, l_height, x_coords, y_coords, z_coords,
                   base_vertex_start, vertex_map, face_count, retval, fs, main_vars, reshape_vars, norm_vars>>

\* "Create vertex index mapping"
CreateVertexMap ==
    /\ pc = "vertex_map"
    /\ vertex_map' = BuildVertexMap(z_coords, nrows, ncols)
    /\ pc' = "top_faces"
    /\ UNCHANGED <<mesh_args, l_lon, l_lat, l_height, x_coords, y_coords, z_coords,
                   vertex_count, base_vertex_start, face_count, obj_file, retval, fs,
                   main_vars, reshape_vars, norm_vars>>

\* "Write faces for top surface"
WriteTopFaces ==
    /\ pc = "top_faces"
    /\ LET lines == QuadLines(vertex_map, ncols, (nrows - 1) * (ncols - 1), FALSE, 0)
       IN  /\ obj_file' = obj_file \o lines
           /\ face_count' = Len(lines)
    /\ pc' = "base_faces"
    /\ UNCHANGED <<mesh_args, l_lon, l_lat, l_height, x_coords, y_coords, z_coords,
                   vertex_count, base_vertex_start, vertex_map, retval, fs, main_vars, reshape_vars, norm_vars>>

\* "Write faces for bottom base"; without a base the side walls are skipped too
WriteBaseFaces ==
    /\ pc = "base_faces"
    /\ IF add_base
       THEN LET lines == QuadLines(vertex_map, ncols, (nrows - 1) * (ncols - 1), TRUE,
                                   base_vertex_start - 1)
            IN  /\ obj_file' = obj_file \o lines
                /\ face_count' = face_count + Len(lines)
                /\ pc' = "front"
       ELSE /\ pc' = "close"
            /\ UNCHANGED <<obj_file, face_count>>
    /\ UNCHANGED <<mesh_args, l_lon, l_lat, l_height, x_coords, y_coords, z_coords,
                   vertex_count, base_vertex_start, vertex_map, retval, fs, main_vars, reshape_vars, norm_vars>>

\* one of the four side-wall loops
WriteWall(edge, next) ==
    /\ pc = edge
    /\ LET lines == WallLines(edge, vertex_map, nrows, ncols,
                              EdgeSteps(edge, nrows, ncols), base_vertex_start)
       IN  /\ obj_file' = obj_file \o lines
           /\ face_count' = face_count + Len(lines)
    /\ pc' = next
    /\ UNCHANGED <<mesh_args, l_lon, l_lat, l_height, x_coords, y_coords, z_coords,
                   vertex_count, base_vertex_start, vertex_map, retval, fs, main_vars, reshape_vars, norm_vars>>

FrontEdge == WriteWall("front", "back")
BackEdge  == WriteWall("back", "left")
LeftEdge  == WriteWall("left", "right")
RightEdge == WriteWall("right", "close")

\* the face count comment and the end of the with block
CloseObj ==
    /\ pc = "close"
    /\ obj_file' = Append(obj_file, <<"#", face_count, 0, 0>>)
    /\ fs' = WriteFile(fs, <<output_path, "obj">>, obj_file')
    /\ pc' = "mtl"
    /\ UNCHANGED <<mesh_args, l_lon, l_lat, l_height, x_coords, y_coords, z_coords,
                   vertex_count, base_vertex_start, vertex_map, face_count, retval,
                   main_vars, reshape_vars, norm_vars>>

\* "Create companion .mtl file" and return vertex_count, face_count
WriteMtl ==
    /\ pc = "mtl"
    /\ fs' = WriteFile(fs, <<output_path, "mtl">>, MtlLines)
    /\ retval' = <<vertex_count, face_count>>
    /\ pc' = "returned"
    /\ UNCHANGED <<mesh_args, l_lon, l_lat, l_height, x_coords, y_coords, z_coords,
                   vertex_count, base_vertex_start, vertex_map, face_count, obj_file,
                   main_vars, reshape_vars, norm_vars>>

create_obj_mesh ==
    \/ FilterRegion
    \/ ScaleCoords
    \/ WriteHeader
    \/ WriteTopVertices
    \/ WriteBaseVertices
    \/ CreateVertexMap
    \/ WriteTopFaces
    \/ WriteBaseFaces
    \/ FrontEdge
    \/ BackEdge
    \/ LeftEdge
    \/ RightEdge
    \/ CloseObj
    \/ WriteMtl

-----------------------------------------------------------------------------
(* Inputs of a direct call of create_obj_mesh *)

\* coordinate axes: longitudes ascending, latitudes descending (reshape_to_grid)
LonAxis(west, step, n) == [k \in 1..n |-> west + step * (k - 1)]
LatAxis(north, step, n) == [k \in 1..n |-> north - step * (k - 1)]

\* heights 1, 2, 3, .. in row-major order, NaN at the cells of holes
HeightsWithHoles(nr, nc, holes) ==
    [i \in 0..(nr - 1) |-> [j \in 0..(nc - 1) |->
        IF <<i, j>> \in holes THEN NaN ELSE 1 + i * nc + j]]

HoleSets(nr, nc) ==
    {h \in SUBSET ((0..(nr - 1)) \X (0..(nc - 1))) : Cardinality(h) <= MaxHoles}

\* normalize_and_scale is not running
NormIdle ==
    /\ base_thickness = 0 /\ height_scale = 0 /\ max_height = 0
    /\ smooth_iterations = 0 /\ min_feature_size = 0
    /\ n_pc = "idle"
    /\ pot_log = <<>> /\ pot_normalized = <<>> /\ heights = <<>> /\ n_retval = None

\* reshape_to_grid is not running
ReshapeIdle ==
    /\ df = <<>> /\ r_pc = "idle" /\ unique_lats = <<>> /\ unique_lons = <<>>
    /\ r_lon_grid = <<>> /\ r_lat_grid = <<>> /\ potential_grid = <<>>
    /\ r_result = "none"

LocalsInit ==
    /\ l_lon = <<>> /\ l_lat = <<>> /\ l_height = <<>>
    /\ x_coords = <<>> /\ y_coords = <<>> /\ z_coords = <<>>
    /\ vertex_count = 0 /\ base_vertex_start = 0 /\ vertex_map = <<>>
    /\ face_count = 0 /\ obj_file = <<>> /\ retval = None

\* main's list of regional models; xy_scale 1.5, 2.0, 2.0, 3.0, 5.0 in halves
models ==
    << [name |-> "world_full",         lon_range |-> None,         lat_range |-> None,
        xy_scale |-> 3],
       [name |-> "western_hemisphere", lon_range |-> <<-180, -30>>, lat_range |-> <<-60, 80>>,
        xy_scale |-> 4],
       [name |-> "eastern_hemisphere", lon_range |-> <<-30, 180>>,  lat_range |-> <<-60, 80>>,
        xy_scale |-> 4],
       [name |-> "asia_pacific",       lon_range |-> <<60, 150>>,   lat_range |-> <<-10, 60>>,
        xy_scale |-> 6],
       [name |-> "golden_triangle",    lon_range |-> <<85, 110>>,   lat_range |-> <<15, 30>>,
        xy_scale |-> 10] >>

\* the grids of an nr x nc lattice: longitudes -100, 0, 100, .. and latitudes
\* 25, 15, 5, ..
GridsInit(nr, nc, holes) ==
    /\ lon_grid = meshgrid_lon(LonAxis(-100, 100, nc), LatAxis(25, 10, nr))
    /\ lat_grid = meshgrid_lat(LonAxis(-100, 100, nc), LatAxis(25, 10, nr))
    /\ height_grid = HeightsWithHoles(nr, nc, holes)

\* A direct call: any grid with holes, the windows of main's models, either
\* value of add_base.
InitMesh ==
    /\ \E nr \in 1..MaxRows, nc \in 1..MaxCols :
         \E holes \in HoleSets(nr, nc) : GridsInit(nr, nc, holes)
    /\ \E m \in DOMAIN models :
         /\ output_path = models[m].name
         /\ lon_range = models[m].lon_range
         /\ lat_range = models[m].lat_range
         /\ xy_scale = models[m].xy_scale
    /\ add_base \in BOOLEAN
    /\ pc = "filter"
    /\ LocalsInit
    /\ fs = <<>>
    /\ main_pc = "none" /\ model_idx = 0 /\ saved = <<>>
    /\ ReshapeIdle
    /\ NormIdle

SpecMesh == InitMesh /\ [][create_obj_mesh]_vars

-----------------------------------------------------------------------------
(* main: the loop over the regional models *)

\* "for model in models": the call of create_obj_mesh for the next model
MainCall ==
    /\ main_pc = "loop"
    /\ model_idx \in DOMAIN models
    /\ output_path' = models[model_idx].name
    /\ lon_range' = models[model_idx].lon_range
    /\ lat_range' = models[model_idx].lat_range
    /\ xy_scale' = models[model_idx].xy_scale
    /\ add_base' = TRUE
    /\ pc' = "filter"
    /\ l_lon' = <<>> /\ l_lat' = <<>> /\ l_height' = <<>>
    /\ x_coords' = <<>> /\ y_coords' = <<>> /\ z_coords' = <<>>
    /\ vertex_count' = 0 /\ base_vertex_start' = 0 /\ vertex_map' = <<>>
    /\ face_count' = 0 /\ obj_file' = <<>> /\ retval' = None
    /\ main_pc' = "call"
    /\ UNCHANGED <<lon_grid, lat_grid, height_grid, fs, model_idx, saved, reshape_vars, norm_vars>>

\* "v_count, f_count = create_obj_mesh(...)": unpacking None raises TypeError,
\* which nothing in main catches
MainUnpack ==
    /\ main_pc = "call"
    /\ pc = "returned"
    /\ IF retval = None
       THEN /\ main_pc' = "TypeError"
            /\ UNCHANGED <<model_idx, saved>>
       ELSE /\ saved' = Append(saved, <<output_path, retval[1], retval[2]>>)
            /\ model_idx' = model_idx + 1
            /\ main_pc' = "loop"
    /\ pc' = "idle"
    /\ UNCHANGED <<mesh_args, mesh_locals, fs, reshape_vars, norm_vars>>

\* the loop is exhausted: "All .obj files generated!"
MainDone ==
    /\ main_pc = "loop"
    /\ model_idx = Len(models) + 1
    /\ main_pc' = "done"
    /\ UNCHANGED <<mesh_args, pc, mesh_locals, fs, model_idx, saved, reshape_vars, norm_vars>>

\* main's grids: a full lattice, every height finite
InitMain ==
    /\ \E nr \in 1..MaxRows, nc \in 1..MaxCols : GridsInit(nr, nc, {})
    /\ output_path = "" /\ lon_range = None /\ lat_range = None
    /\ xy_scale = 0 /\ add_base = TRUE
    /\ pc = "idle"
    /\ LocalsInit
    /\ fs = <<>>
    /\ main_pc = "loop" /\ model_idx = 1 /\ saved = <<>>
    /\ ReshapeIdle
    /\ NormIdle

NextMain ==
    \/ MainCall
    \/ create_obj_mesh
    \/ MainUnpack
    \/ MainDone

SpecMain == InitMain /\ [][NextMain]_vars

-----------------------------------------------------------------------------
(* reshape_to_grid *)

\* sorted(S): the elements of a set of numbers, ascending
RECURSIVE sorted(_)
sorted(S) == IF S = {} THEN <<>> ELSE <<SetMin(S)>> \o sorted(S \ {SetMin(S)})

\* sorted(S, reverse=True)
RECURSIVE sorted_reverse(_)
sorted_reverse(S) ==
    IF S = {} THEN <<>> ELSE <<SetMax(S)>> \o sorted_reverse(S \ {SetMax(S)})

\* df[col].unique() as a set
Column(d, col) == {d[k][col] : k \in DOMAIN d}

\* variant: both keys ascending
Before_Ascending(a, b) == a.lat < b.lat \/ (a.lat = b.lat /\ a.lon < b.lon)

\* the order of sort_values(['lat', 'lon'], ascending=[False, True])
Before(a, b) == a.lat > b.lat \/ (a.lat = b.lat /\ a.lon < b.lon)

\* x inserted into a sorted sequence behind every element it does not precede
RECURSIVE Insert(_, _)
Insert(srt, x) ==
    IF srt = <<>> THEN <<x>>
    ELSE IF Before(x, Head(srt)) THEN <<x>> \o srt
         ELSE <<Head(srt)>> \o Insert(Tail(srt), x)

\* df.sort_values(..): a stable sort, rows that compare equal keep their order
RECURSIVE sort_values(_)
sort_values(d) ==
    IF d = <<>> THEN <<>>
    ELSE Insert(sort_values(SubSeq(d, 1, Len(d) - 1)), d[Len(d)])

\* values.reshape(nr, nc) of a sequence whose length is nr * nc, row-major
reshape(values, nr, nc) ==
    [i \in 0..(nr - 1) |-> [j \in 0..(nc - 1) |-> values[i * nc + j + 1]]]

\* unique_lats, unique_lons, nrows, ncols
UniqueAxes ==
    /\ r_pc = "unique"
    /\ unique_lats' = sorted_reverse(Column(df, "lat"))
    /\ unique_lons' = sorted(Column(df, "lon"))
    /\ r_pc' = "meshgrid"
    /\ UNCHANGED <<mesh_vars, norm_vars, df, r_lon_grid, r_lat_grid, potential_grid, r_result>>

\* "Create meshgrid"
Meshgrid ==
    /\ r_pc = "meshgrid"
    /\ r_lon_grid' = meshgrid_lon(unique_lons, unique_lats)
    /\ r_lat_grid' = meshgrid_lat(unique_lons, unique_lats)
    /\ r_pc' = "reshape"
    /\ UNCHANGED <<mesh_vars, norm_vars, df, unique_lats, unique_lons, potential_grid, r_result>>

\* "Reshape potential values": numpy raises ValueError when the number of
\* samples is not nrows * ncols
SortReshape ==
    /\ r_pc = "reshape"
    /\ LET df_sorted == sort_values(df)
           nr        == Len(unique_lats)
           nc        == Len(unique_lons)
       IN  IF Len(df_sorted) /= nr * nc
           THEN /\ r_result' = "ValueError"
                /\ r_pc' = "raised"
                /\ UNCHANGED potential_grid
           ELSE /\ potential_grid' =
                       reshape([k \in DOMAIN df_sorted |-> df_sorted[k].potential], nr, nc)
                /\ r_pc' = "return"
                /\ UNCHANGED r_result
    /\ UNCHANGED <<mesh_vars, norm_vars, df, unique_lats, unique_lons, r_lon_grid, r_lat_grid>>

\* return lon_grid, lat_grid, potential_grid, unique_lons, unique_lats
ReshapeReturn ==
    /\ r_pc = "return"
    /\ r_result' = "ok"
    /\ r_pc' = "returned"
    /\ UNCHANGED <<mesh_vars, norm_vars, df, unique_lats, unique_lons, r_lon_grid, r_lat_grid,
                   potential_grid>>

reshape_to_grid ==
    \/ UniqueAxes
    \/ Meshgrid
    \/ SortReshape
    \/ ReshapeReturn

\* coordinates of the samples drawn
LatValues == {10, 20}
LonValues == {-5, 0, 5}

\* create_obj_mesh and main are not running
MeshIdle ==
    /\ lon_grid = <<>> /\ lat_grid = <<>> /\ height_grid = <<>>
    /\ output_path = "" /\ lon_range = None /\ lat_range = None
    /\ xy_scale = 0 /\ add_base = FALSE
    /\ pc = "idle"
    /\ LocalsInit
    /\ fs = <<>>
    /\ main_pc = "none" /\ model_idx = 0 /\ saved = <<>>

\* Samples in any order and with any coordinates, lattice or not; the k-th
\* sample read carries the potential 100 + k.
InitReshape ==
    /\ \E n \in 1..MaxSamples :
         \E lats \in [1..n -> LatValues], lons \in [1..n -> LonValues] :
            df = [k \in 1..n |-> [lat |-> lats[k], lon |-> lons[k], potential |-> 100 + k]]
    /\ r_pc = "unique"
    /\ unique_lats = <<>> /\ unique_lons = <<>>
    /\ r_lon_grid = <<>> /\ r_lat_grid = <<>> /\ potential_grid = <<>>
    /\ r_result = "none"
    /\ MeshIdle
    /\ NormIdle

SpecReshape == InitReshape /\ [][reshape_to_grid]_vars

-----------------------------------------------------------------------------
(* normalize_and_scale and smooth_surface *)

\* Heights and normalized values are counted in 1/Unit: the unit divides by
\* the ranges 1 and 2 of the logarithms drawn, by 9 once per smoothing pass,
\* and by the 100 of the percentile and the 20 of the factor 0.95.
Unit == 2 * (9 ^ MaxSmooth) * 1000

CellsOf(g) == {<<i, j>> : i \in DOMAIN g, j \in 0..(Shape(g)[2] - 1)}

AnyNaN(g) == \E c \in CellsOf(g) : isnan(g[c[1]][c[2]])

\* np.log10 on the powers of ten; log10(0) is -inf, a negative argument
\* gives nan
RECURSIVE log10(_)
log10(x) ==
    IF isnan(x) \/ x < 0 THEN NaN
    ELSE IF x = 0 THEN NegInf
    ELSE IF x = 1 THEN 0 ELSE 1 + log10(x \div 10)

\* np.log10(potential_grid + 1)
LogCompressed(g) ==
    [i \in DOMAIN g |-> [j \in DOMAIN g[i] |->
        IF isnan(g[i][j]) THEN NaN ELSE log10(g[i][j] + 1)]]

\* ndarray.min() and ndarray.max(): nan as soon as one cell is nan
grid_min(g) == IF AnyNaN(g) THEN NaN ELSE SetMin(GridValues(g))
grid_max(g) == IF AnyNaN(g) THEN NaN ELSE SetMax(GridValues(g))

\* (pot_log - pot_min) / (pot_max - pot_min), in 1/Unit.  0/0 is nan.  With
\* pot_min = -inf the numerator is inf, or nan where the cell is -inf, and
\* the denominator is inf, or nan when pot_max is -inf too: the quotient is nan.
Normalized(g, lo, hi) ==
    [i \in DOMAIN g |-> [j \in DOMAIN g[i] |->
        IF isnan(g[i][j]) \/ isnan(lo) \/ isnan(hi) THEN NaN
        ELSE IF lo = NegInf THEN NaN
        ELSE IF hi = lo THEN NaN
        ELSE ((g[i][j] - lo) * Unit) \div (hi - lo)]]

\* index clamped to the grid: mode='nearest'
Clamp(k, n) == IF k < 0 THEN 0 ELSE IF k > n - 1 THEN n - 1 ELSE k

\* uniform_filter(g, size=3, mode='nearest'): the mean of the 3 x 3 window
uniform_filter(g) ==
    LET nr == Shape(g)[1]
        nc == Shape(g)[2]
        W(i, j, di, dj) == g[Clamp(i + di, nr)][Clamp(j + dj, nc)]
        Window(i, j) == {W(i, j, di, dj) : di \in {-1, 0, 1}, dj \in {-1, 0, 1}}
        Sum(i, j) == W(i, j, -1, -1) + W(i, j, -1, 0) + W(i, j, -1, 1)
                   + W(i, j, 0, -1)  + W(i, j, 0, 0)  + W(i, j, 0, 1)
                   + W(i, j, 1, -1)  + W(i, j, 1, 0)  + W(i, j, 1, 1)
    IN  [i \in DOMAIN g |-> [j \in DOMAIN g[i] |->
            IF NaN \in Window(i, j) THEN NaN ELSE Sum(i, j) \div 9]]

\* smooth_surface(grid, iterations, kernel_size=3)
RECURSIVE smooth_surface(_, _)
smooth_surface(g, iterations) ==
    IF iterations = 0 THEN g
    ELSE uniform_filter(smooth_surface(g, iterations - 1))

\* base_thickness + pot_normalized * height_scale
Scaled(g, base, scale) ==
    [i \in DOMAIN g |-> [j \in DOMAIN g[i] |->
        IF isnan(g[i][j]) THEN NaN ELSE base * Unit + g[i][j] * scale]]

\* variant: no cap
minimum_First(h, m) == h

\* np.minimum(h, m) and np.maximum(h, m) of two numbers: nan if either is
minimum(h, m) == IF isnan(h) \/ isnan(m) THEN NaN ELSE IF h < m THEN h ELSE m
maximum(h, m) == IF isnan(h) \/ isnan(m) THEN NaN ELSE IF h > m THEN h ELSE m

\* np.minimum(heights, max_height)
Capped(g, cap) ==
    [i \in DOMAIN g |-> [j \in DOMAIN g[i] |-> minimum(g[i][j], cap * Unit)]]

\* the cells of a grid as a sequence, row-major (ndarray.ravel)
RECURSIVE ravel(_, _)
ravel(g, k) ==
    IF k = 0 THEN <<>>
    ELSE Append(ravel(g, k - 1), g[CellRow(k, Shape(g)[2])][CellCol(k, Shape(g)[2])])

RECURSIVE InsertAsc(_, _)
InsertAsc(srt, x) ==
    IF srt = <<>> THEN <<x>>
    ELSE IF x < Head(srt) THEN <<x>> \o srt
         ELSE <<Head(srt)>> \o InsertAsc(Tail(srt), x)

RECURSIVE SortAsc(_)
SortAsc(q) ==
    IF q = <<>> THEN <<>> ELSE InsertAsc(SortAsc(SubSeq(q, 1, Len(q) - 1)), q[Len(q)])

\* np.percentile(g, q): linear interpolation between the two nearest ranks;
\* nan if a cell is nan
percentile(g, q) ==
    IF AnyNaN(g) THEN NaN
    ELSE LET srt  == SortAsc(ravel(g, Shape(g)[1] * Shape(g)[2]))
             n    == Len(srt)
             lo   == ((n - 1) * q) \div 100
             frac == ((n - 1) * q) % 100
         IN  IF frac = 0 THEN srt[lo + 1]
             ELSE srt[lo + 1] + (frac * (srt[lo + 2] - srt[lo + 1])) \div 100

\* heights[mask] = np.maximum(heights[mask] * 0.95, threshold), the mask being
\* heights > threshold (false on nan)
SpikeDamped(g, threshold) ==
    [i \in DOMAIN g |-> [j \in DOMAIN g[i] |->
        IF ~isnan(g[i][j]) /\ ~isnan(threshold) /\ g[i][j] > threshold
        THEN maximum((g[i][j] * 19) \div 20, threshold)
        ELSE g[i][j]]]

\* "Use log scale for better visual representation"
LogCompress ==
    /\ n_pc = "log"
    /\ pot_log' = LogCompressed(potential_grid)
    /\ n_pc' = "normalize"
    /\ UNCHANGED <<mesh_vars, reshape_vars, base_thickness, height_scale, max_height,
                   smooth_iterations, min_feature_size, pot_normalized, heights, n_retval>>

\* "Normalize to 0-1 range"
Normalize ==
    /\ n_pc = "normalize"
    /\ pot_normalized' = Normalized(pot_log, grid_min(pot_log), grid_max(pot_log))
    /\ n_pc' = "smooth"
    /\ UNCHANGED <<mesh_vars, reshape_vars, base_thickness, height_scale, max_height,
                   smooth_iterations, min_feature_size, pot_log, heights, n_retval>>

\* "Apply smoothing if requested"
Smooth ==
    /\ n_pc = "smooth"
    /\ pot_normalized' = IF smooth_iterations > 0
                         THEN smooth_surface(pot_normalized, smooth_iterations)
                         ELSE pot_normalized
    /\ n_pc' = "scale"
    /\ UNCHANGED <<mesh_vars, reshape_vars, base_thickness, height_scale, max_height,
                   smooth_iterations, min_feature_size, pot_log, heights, n_retval>>

\* "Scale to desired height range"
Scale ==
    /\ n_pc = "scale"
    /\ heights' = Scaled(pot_normalized, base_thickness, height_scale)
    /\ n_pc' = "cap"
    /\ UNCHANGED <<mesh_vars, reshape_vars, base_thickness, height_scale, max_height,
                   smooth_iterations, min_feature_size, pot_log, pot_normalized, n_retval>>

\* "Cap maximum height"
Cap ==
    /\ n_pc = "cap"
    /\ heights' = Capped(heights, max_height)
    /\ n_pc' = "clamp"
    /\ UNCHANGED <<mesh_vars, reshape_vars, base_thickness, height_scale, max_height,
                   smooth_iterations, min_feature_size, pot_log, pot_normalized, n_retval>>

\* "Clamp minimum feature thickness"
ClampPeaks ==
    /\ n_pc = "clamp"
    /\ heights' = IF min_feature_size > 0
                  THEN SpikeDamped(heights, percentile(heights, 98))
                  ELSE heights
    /\ n_pc' = "return"
    /\ UNCHANGED <<mesh_vars, reshape_vars, base_thickness, height_scale, max_height,
                   smooth_iterations, min_feature_size, pot_log, pot_normalized, n_retval>>

\* return heights
NormReturn ==
    /\ n_pc = "return"
    /\ n_retval' = heights
    /\ n_pc' = "returned"
    /\ UNCHANGED <<mesh_vars, reshape_vars, base_thickness, height_scale, max_height,
                   smooth_iterations, min_feature_size, pot_log, pot_normalized, heights>>

normalize_and_scale ==
    \/ LogCompress
    \/ Normalize
    \/ Smooth
    \/ Scale
    \/ Cap
    \/ ClampPeaks
    \/ NormReturn

\* raw potentials drawn: 0, 9 and 99 have the logarithms 0, 1 and 2; -1 and -2
\* are finite values with the logarithms -inf and nan; NaN is a missing cell
PotValues == {NaN, -2, -1, 0, 9, 99}

NormShapes == {<<1, 1>>, <<1, 3>>, <<2, 2>>}

NormParams == {<<2, 3, 10>>, <<2, 3, 4>>, <<2, -1, 10>>, <<2, 3, 1>>}

InitNorm ==
    /\ \E sh \in NormShapes :
         potential_grid \in [0..(sh[1] - 1) -> [0..(sh[2] - 1) -> PotValues]]
    /\ \E prm \in NormParams :
         /\ base_thickness = prm[1]
         /\ height_scale = prm[2]
         /\ max_height = prm[3]
    /\ smooth_iterations \in 0..MaxSmooth
    /\ min_feature_size \in {0, 1}
    /\ n_pc = "log"
    /\ pot_log = <<>> /\ pot_normalized = <<>> /\ heights = <<>> /\ n_retval = None
    /\ df = <<>> /\ r_pc = "idle" /\ unique_lats = <<>> /\ unique_lons = <<>>
    /\ r_lon_grid = <<>> /\ r_lat_grid = <<>> /\ r_result = "none"
    /\ MeshIdle

SpecNorm == InitNorm /\ [][normalize_and_scale]_vars

-----------------------------------------------------------------------------
(* The mesh as read back from the lines written *)

IsV(l) == l[1] = "v"
IsF(l) == l[1] = "f"

Vertices == SelectSeq(obj_file, IsV)
Faces    == SelectSeq(obj_file, IsF)

FaceIndices(f) == {f[2], f[3], f[4]}
FaceEdges(f)   == {{f[2], f[3]}, {f[3], f[4]}, {f[2], f[4]}}

EdgesOf(F) == UNION {FaceEdges(F[k]) : k \in DOMAIN F}

\* number of triangles of F an undirected edge occurs in
EdgeUse(F, e) == Cardinality({k \in DOMAIN F : e \subseteq FaceIndices(F[k])})

\* every face line has been written
FacesWritten == pc \in {"close", "mtl"} \/ (pc = "returned" /\ retval /= None)

\* vertex_map has been built
MapBuilt == pc \in {"top_faces", "base_faces", "front", "back", "left", "right"}
            \/ FacesWritten

AllCells == (0..(nrows - 1)) \X (0..(ncols - 1))

ValidCells == {c \in AllCells : ~isnan(z_coords[c[1]][c[2]])}

NoHoles == \A c \in AllCells : ~isnan(z_coords[c[1]][c[2]])

Quads == (0..(nrows - 2)) \X (0..(ncols - 2))

QuadCorners(q) == {<<q[1], q[2]>>, <<q[1], q[2] + 1>>, <<q[1] + 1, q[2] + 1>>, <<q[1] + 1, q[2]>>}

FullQuad(q) == \A c \in QuadCorners(q) : ~isnan(z_coords[c[1]][c[2]])

\* twice the signed area of the (x, y) projection of face f over the vertex
\* lines V, in emitted order
SignedArea2(V, f) ==
    LET a == V[f[2]]
        b == V[f[3]]
        c == V[f[4]]
    IN  (b[2] - a[2]) * (c[3] - a[3]) - (c[2] - a[2]) * (b[3] - a[3])

\* the first "f" line of a file, or one past its end
FirstF(file) == SetMin({p \in DOMAIN file : IsF(file[p])} \cup {Len(file) + 1})

-----------------------------------------------------------------------------
(* Claims about create_obj_mesh *)

\* C1: for a grid without NaN cells (rows >= 1, cols >= 1) and add_base = True,
\* every undirected edge of an emitted triangle occurs in exactly two emitted
\* triangles.
C1_ClosedManifold ==
    (FacesWritten /\ add_base /\ NoHoles) =>
        LET F == Faces IN \A e \in EdgesOf(F) : EdgeUse(F, e) = 2

\* The same on grids with at least two rows and two columns.
ClosedManifold_2x2 ==
    (FacesWritten /\ add_base /\ NoHoles /\ nrows >= 2 /\ ncols >= 2) =>
        LET F == Faces IN \A e \in EdgesOf(F) : EdgeUse(F, e) = 2

\* C2: every index of an "f" line lies in 1..vertex_count and names the vertex
\* (top, or base via the fixed offset) written for a non-NaN cell, and every
\* "v" line precedes the first "f" line.
C2_FaceIndicesValid ==
    LET V     == Vertices
        F     == Faces
        first == FirstF(obj_file)
    IN  /\ \A q \in DOMAIN obj_file : IsV(obj_file[q]) => q < first
        /\ \A k \in DOMAIN F : \A v \in FaceIndices(F[k]) :
             /\ v \in 1..vertex_count
             /\ v \in DOMAIN V
             /\ \E c \in ValidCells :
                  \/ /\ v = vertex_map[c[1]][c[2]]
                     /\ V[v] = <<"v", x_coords[c[1]][c[2]], y_coords[c[1]][c[2]],
                                 z_coords[c[1]][c[2]]>>
                  \/ /\ add_base
                     /\ v = vertex_map[c[1]][c[2]] + base_vertex_start - 1
                     /\ V[v] = <<"v", x_coords[c[1]][c[2]], y_coords[c[1]][c[2]], 0>>

C2_Witness ==
    /\ FacesWritten /\ add_base
    /\ ValidCells /= AllCells
    /\ Len(Faces) > 0

\* C3: with add_base = True, base_vertex_start is the number of non-NaN cells
\* plus one, and for every non-NaN cell the vertex at position
\* vertex_map[r,c] + base_vertex_start - 1 is that cell's base vertex: the x and
\* y of the vertex at vertex_map[r,c], which is the cell's top vertex, and z = 0.
C3_BaseOffset ==
    (MapBuilt /\ add_base) =>
        LET V == Vertices
        IN  /\ base_vertex_start = Cardinality(ValidCells) + 1
            /\ \A c \in ValidCells :
                 LET t == vertex_map[c[1]][c[2]]
                     b == t + base_vertex_start - 1
                 IN  /\ t \in DOMAIN V /\ b \in DOMAIN V
                     /\ V[t] = <<"v", x_coords[c[1]][c[2]], y_coords[c[1]][c[2]],
                                 z_coords[c[1]][c[2]]>>
                     /\ V[b] = <<"v", V[t][2], V[t][3], 0>>

C3_Witness ==
    /\ MapBuilt /\ add_base
    /\ Cardinality(ValidCells) >= 3
    /\ ValidCells /= AllCells

\* the faces of F whose three indices are corners of quad q
QuadFaceSet(F, q) ==
    LET qv == {vertex_map[c[1]][c[2]] : c \in QuadCorners(q)}
    IN  {k \in DOMAIN F : FaceIndices(F[k]) \subseteq qv}

QuadDiagonal(q) == {vertex_map[q[1]][q[2]], vertex_map[q[1] + 1][q[2] + 1]}

\* C4: for every quad with four non-NaN corners exactly two top triangles are
\* emitted, both containing the (i,j) and (i+1,j+1) vertices, and each is wound
\* counter-clockwise seen from above (positive signed area in x, y).
C4_TopFacesCCW ==
    FacesWritten =>
        LET V == Vertices
            F == Faces
        IN  \A q \in Quads : FullQuad(q) =>
                /\ Cardinality(QuadFaceSet(F, q)) = 2
                /\ \A k \in QuadFaceSet(F, q) :
                     /\ QuadDiagonal(q) \subseteq FaceIndices(F[k])
                     /\ SignedArea2(V, F[k]) > 0

\* The top triangles as the code winds them: two per full quad on the
\* (i,j)-(i+1,j+1) diagonal, clockwise seen from above.
TopFacesClockwise ==
    FacesWritten =>
        LET V == Vertices
            F == Faces
        IN  \A q \in Quads : FullQuad(q) =>
                /\ Cardinality(QuadFaceSet(F, q)) = 2
                /\ \A k \in QuadFaceSet(F, q) :
                     /\ QuadDiagonal(q) \subseteq FaceIndices(F[k])
                     /\ SignedArea2(V, F[k]) < 0

\* number of quads with a NaN corner
HoleQuads == Cardinality({q \in Quads : ~FullQuad(q)})

\* C5: with add_base = False the number of "f" lines is
\* 2 * ((rows-1)*(cols-1) - k), k the number of quads with a NaN corner; the
\* returned face_count is that number; k = 0 without NaN cells (3x3: 8 faces,
\* 9 vertices); k <= 4 with exactly one NaN cell.
C5_FaceCount ==
    (pc = "returned" /\ retval /= None /\ ~add_base) =>
        LET written == SelectSeq(fs[<<output_path, "obj">>], IsF)
        IN  /\ Len(written) = 2 * ((nrows - 1) * (ncols - 1) - HoleQuads)
            /\ retval[2] = Len(written)
            /\ NoHoles => HoleQuads = 0
            /\ (NoHoles /\ nrows = 3 /\ ncols = 3) => (retval = <<9, 8>>)
            /\ Cardinality(ValidCells) = nrows * ncols - 1 => HoleQuads <= 4

C5_Witness ==
    /\ pc = "returned" /\ retval = <<9, 8>> /\ ~add_base
    /\ NoHoles /\ nrows = 3 /\ ncols = 3

-----------------------------------------------------------------------------
(* Claims about the region filter and main *)

\* the window of the current call holds no cell of the caller's grids
EmptyWindow ==
    /\ HasWindow(lon_range, lat_range)
    /\ LET mask == RegionMask(lon_grid, lat_grid, lon_range, lat_range)
       IN  MaskRows(mask) = {} \/ MaskCols(mask) = {}

\* C6: a call whose window holds no grid cell ends in an error the caller can
\* handle: no mesh file is written for it, and main's sequence of exports is
\* not brought down.
C6_EmptyRegionHandled ==
    /\ (EmptyWindow /\ pc = "returned") => <<output_path, "obj">> \notin DOMAIN fs
    /\ main_pc /= "TypeError"

-----------------------------------------------------------------------------
(* Claims about reshape_to_grid *)

\* every distinct latitude paired with every distinct longitude exactly once
CompleteLattice(d) ==
    \A la \in Column(d, "lat"), lo \in Column(d, "lon") :
        Cardinality({k \in DOMAIN d : d[k].lat = la /\ d[k].lon = lo}) = 1

\* row of a latitude: the number of distinct latitudes above it; column of a
\* longitude: the number of distinct longitudes below it
LatRank(d, la) == Cardinality({x \in Column(d, "lat") : x > la})
LonRank(d, lo) == Cardinality({x \in Column(d, "lon") : x < lo})

\* C7: for a complete lattice in any order reshape_to_grid returns grids of
\* (distinct latitudes) x (distinct longitudes) cells, as many as samples, and
\* the cell at (r-th largest latitude, c-th smallest longitude) holds the value
\* of the sample with these coordinates, as lat_grid and lon_grid hold them.
C7_LatticeGrid ==
    (CompleteLattice(df) /\ r_pc \in {"return", "returned", "raised"}) =>
        /\ r_pc /= "raised"
        /\ Shape(potential_grid) =
               <<Cardinality(Column(df, "lat")), Cardinality(Column(df, "lon"))>>
        /\ Shape(r_lat_grid) = Shape(potential_grid)
        /\ Shape(r_lon_grid) = Shape(potential_grid)
        /\ Shape(potential_grid)[1] * Shape(potential_grid)[2] = Len(df)
        /\ \A k \in DOMAIN df :
             LET r == LatRank(df, df[k].lat)
                 c == LonRank(df, df[k].lon)
             IN  /\ potential_grid[r][c] = df[k].potential
                 /\ r_lat_grid[r][c] = df[k].lat
                 /\ r_lon_grid[r][c] = df[k].lon

C7_Witness ==
    /\ r_pc = "returned" /\ CompleteLattice(df)
    /\ Cardinality(Column(df, "lat")) = 2 /\ Cardinality(Column(df, "lon")) = 2
    /\ df[1].lat < df[2].lat

\* C8: reshape_to_grid raises for every sample set that is not a complete
\* lattice, and never returns a grid with a cell holding the value of a sample
\* of other coordinates than the cell's.
C8_RejectsIncomplete ==
    /\ (~CompleteLattice(df) /\ r_pc \in {"return", "returned", "raised"})
           => r_pc = "raised" /\ r_result = "ValueError"
    /\ r_pc \in {"return", "returned"} =>
           \A i \in DOMAIN potential_grid : \A j \in DOMAIN potential_grid[i] :
               \E k \in DOMAIN df : /\ df[k].potential = potential_grid[i][j]
                                    /\ df[k].lat = r_lat_grid[i][j]
                                    /\ df[k].lon = r_lon_grid[i][j]

\* What the code does raise on: a sample count other than rows x columns.
RejectsCountMismatch ==
    r_pc \in {"return", "returned", "raised"} =>
        (r_pc = "raised" <=>
            Len(df) /= Cardinality(Column(df, "lat")) * Cardinality(Column(df, "lon")))

-----------------------------------------------------------------------------
(* Claims about normalize_and_scale *)

FiniteInput == ~AnyNaN(potential_grid)

\* every cell has a logarithm: the value plus one is positive
PositiveInput == \A v \in GridValues(potential_grid) : ~isnan(v) /\ v > -1

\* the logarithms are not all equal
RangeInput == Cardinality(GridValues(potential_grid)) > 1

InRange(h) == ~isnan(h) /\ base_thickness * Unit <= h /\ h <= max_height * Unit

HeightsInRange_GoodInput ==
    (n_pc = "returned" /\ PositiveInput /\ RangeInput) =>
        \A h \in GridValues(n_retval) : InRange(h)

C10_NaNExcluded ==
    (n_pc = "returned"
        /\ AnyNaN(potential_grid)
        /\ \A v \in GridValues(potential_grid) \ {NaN} : v > -1
        /\ Cardinality(GridValues(potential_grid) \ {NaN}) > 1) =>
        \A c \in CellsOf(potential_grid) :
            isnan(n_retval[c[1]][c[2]]) <=> isnan(potential_grid[c[1]][c[2]])

\* What the code returns for a grid with a NaN cell: NaN everywhere.
NaNSpreads ==
    (n_pc = "returned" /\ AnyNaN(potential_grid)) =>
        \A h \in GridValues(n_retval) : isnan(h)

\* every cell has the same logarithm: pot_log.min() = pot_log.max()
DegenerateRange == PositiveInput /\ ~RangeInput

\* C11: when all log-compressed values are equal (min = max, as for a
\* constant field or a 1x1 grid), normalize_and_scale returns no height grid
\* and never a grid holding a NaN height from the division by max - min = 0.
C11_DegenerateRangeError ==
    (n_pc = "returned" /\ DegenerateRange) =>
        /\ n_retval = None
        /\ \A h \in GridValues(n_retval) : ~isnan(h)

\* What the code does with such a grid: it returns, and every height is NaN.
DegenerateGivesNaN ==
    (n_pc = "returned" /\ DegenerateRange) =>
        /\ n_retval /= None
        /\ \A h \in GridValues(n_retval) : isnan(h)

-----------------------------------------------------------------------------
(* Any sequence of regional exports from the same grids, and any call of
   normalize_and_scale *)

MaxExports == 2

\* the call main's loop makes, for any of main's models
ExportCall(m) ==
    /\ main_pc = "loop"
    /\ model_idx <= MaxExports
    /\ output_path' = models[m].name
    /\ lon_range' = models[m].lon_range
    /\ lat_range' = models[m].lat_range
    /\ xy_scale' = models[m].xy_scale
    /\ add_base' = TRUE
    /\ pc' = "filter"
    /\ l_lon' = <<>> /\ l_lat' = <<>> /\ l_height' = <<>>
    /\ x_coords' = <<>> /\ y_coords' = <<>> /\ z_coords' = <<>>
    /\ vertex_count' = 0 /\ base_vertex_start' = 0 /\ vertex_map' = <<>>
    /\ face_count' = 0 /\ obj_file' = <<>> /\ retval' = None
    /\ main_pc' = "call"
    /\ UNCHANGED <<lon_grid, lat_grid, height_grid, fs, model_idx, saved, reshape_vars, norm_vars>>

AnyExportCall == \E m \in DOMAIN models : ExportCall(m)

InitCalls == InitMain \/ InitNorm

NextCalls ==
    \/ AnyExportCall
    \/ create_obj_mesh
    \/ MainUnpack
    \/ normalize_and_scale

SpecCalls == InitCalls /\ [][NextCalls]_vars

\* the window of model m applied to grid g, as lines 128-146 apply it
CropOf(g, lon, lat, m) ==
    IF HasWindow(m.lon_range, m.lat_range)
    THEN LET mask == RegionMask(lon, lat, m.lon_range, m.lat_range)
             rows == MaskRows(mask)
             cols == MaskCols(mask)
         IN  Slice(g, SetMin(rows), SetMax(rows), SetMin(cols), SetMax(cols))
    ELSE g

\* the obj file a call of create_obj_mesh with add_base=True writes for model
\* m from the grids lon, lat, h alone (its window holding a cell)
ObjOf(lon, lat, h, m) ==
    LET z    == CropOf(h, lon, lat, m)
        x    == ScaleShift(CropOf(lon, lon, lat, m), m.xy_scale)
        y    == ScaleShift(CropOf(lat, lon, lat, m), m.xy_scale)
        nr   == Shape(z)[1]
        nc   == Shape(z)[2]
        top  == VertexLines(x, y, z, nc, nr * nc, FALSE)
        base == VertexLines(x, y, z, nc, nr * nc, TRUE)
        vm   == BuildVertexMap(z, nr, nc)
        bvs  == Len(top) + 1
        f    == QuadLines(vm, nc, (nr - 1) * (nc - 1), FALSE, 0)
                \o QuadLines(vm, nc, (nr - 1) * (nc - 1), TRUE, bvs - 1)
                \o WallLines("front", vm, nr, nc, EdgeSteps("front", nr, nc), bvs)
                \o WallLines("back", vm, nr, nc, EdgeSteps("back", nr, nc), bvs)
                \o WallLines("left", vm, nr, nc, EdgeSteps("left", nr, nc), bvs)
                \o WallLines("right", vm, nr, nc, EdgeSteps("right", nr, nc), bvs)
    IN  HeaderLines \o top \o base \o << <<"#", Len(top) + Len(base), 0, 0>> >>
        \o f \o << <<"#", Len(f), 0, 0>> >>

ModelNamed(name) == CHOOSE m \in DOMAIN models : models[m].name = name

\* no step of a call changes a cell or the shape of a grid passed to it
GridsKept ==
    /\ lon_grid' = lon_grid
    /\ lat_grid' = lat_grid
    /\ height_grid' = height_grid
    /\ potential_grid' = potential_grid

\* between calls, every export made so far has left the file a first call
\* from the same grids writes for its region, and has returned that file's
\* vertex and face counts
ExportsAsDirect ==
    main_pc = "loop" =>
    \A k \in DOMAIN saved :
        LET file == fs[<<saved[k][1], "obj">>]
            want == ObjOf(lon_grid, lat_grid, height_grid,
                          models[ModelNamed(saved[k][1])])
        IN  /\ file = want
            /\ saved[k][2] = Len(SelectSeq(want, IsV))
            /\ saved[k][3] = Len(SelectSeq(want, IsF))

\* C12: create_obj_mesh and normalize_and_scale never modify the grids passed
\* to them, also when a crop window is applied, so in any sequence of regional
\* exports from the same grids the vertices and faces written for a region
\* are the same whatever exports ran before it and in whatever order.
C12_GridsUnmodified == [][GridsKept]_vars /\ []ExportsAsDirect

\* a cropped export (two of three columns kept) was followed by an export of
\* the whole grid
C12_Witness ==
    /\ main_pc = "loop"
    /\ Len(saved) = 2
    /\ saved[1][1] = "eastern_hemisphere"
    /\ saved[2][1] = "world_full"
    /\ Shape(lon_grid) = <<3, 3>>
    /\ Shape(l_lon) = <<3, 3>>
    /\ saved[1][2] = 12 /\ saved[2][2] = 18

-----------------------------------------------------------------------------
(* Claims about the side walls and the orientation of the faces *)

\* the normal of face f over the vertex lines V by the right-hand rule on
\* the emitted order: (b - a) x (c - a)
Normal(V, f) ==
    LET a == V[f[2]]
        b == V[f[3]]
        c == V[f[4]]
        ux == b[2] - a[2]
        uy == b[3] - a[3]
        uz == b[4] - a[4]
        wx == c[2] - a[2]
        wy == c[3] - a[3]
        wz == c[4] - a[4]
    IN  <<uy * wz - uz * wy, uz * wx - ux * wz, ux * wy - uy * wx>>

WallEdges == {"front", "back", "left", "right"}

\* the consecutive pairs of boundary cells of one line, as <<edge, k>>
BoundaryPairs == {p \in WallEdges \X (1..(MaxRows + MaxCols)) :
                    p[2] <= EdgeSteps(p[1], nrows, ncols)}

PairCells(p) == {EdgeCell(p[1], p[2], nrows, ncols), EdgeNext(p[1], p[2], nrows, ncols)}

ValidPair(p) == \A c \in PairCells(p) : ~isnan(z_coords[c[1]][c[2]])

\* top and base vertex indices of the two cells of a pair
PairIndices(p) ==
    UNION {{vertex_map[c[1]][c[2]], vertex_map[c[1]][c[2]] + base_vertex_start - 1} :
            c \in PairCells(p)}

IsTopIndex(v)  == 1 <= v /\ v < base_vertex_start
IsBaseIndex(v) == base_vertex_start <= v

\* a face that joins top vertices to base vertices
IsWallFace(f) ==
    /\ \E v \in FaceIndices(f) : IsTopIndex(v)
    /\ \E v \in FaceIndices(f) : IsBaseIndex(v)

\* the unit direction out of the solid at each boundary line: rows run from
\* the largest y (row 0) to the smallest, columns from the smallest x
Outward(edge) ==
    CASE edge = "front" -> <<0, 1>>
      [] edge = "back"  -> <<0, -1>>
      [] edge = "left"  -> <<-1, 0>>
      [] edge = "right" -> <<1, 0>>

Sign(n) == IF n > 0 THEN 1 ELSE IF n < 0 THEN -1 ELSE 0

\* the wall faces are two per valid boundary pair, on that pair's four
\* vertices, and none else; their normals point along dir(edge) times side
WallsOnPairs(side) ==
    LET V == Vertices
        F == Faces
        W == {k \in DOMAIN F : IsWallFace(F[k])}
    IN  /\ Cardinality(W) = 2 * Cardinality({p \in BoundaryPairs : ValidPair(p)})
        /\ \A p \in BoundaryPairs :
             ValidPair(p) =>
                LET Wp == {k \in W : FaceIndices(F[k]) \subseteq PairIndices(p)}
                IN  /\ Cardinality(Wp) = 2
                    /\ \A k \in Wp :
                         LET n == Normal(V, F[k])
                         IN  /\ Sign(n[1]) = side * Outward(p[1])[1]
                             /\ Sign(n[2]) = side * Outward(p[1])[2]
                             /\ n[3] = 0

\* C13: with add_base=True (and the four boundary lines distinct: two rows
\* and two columns at least), each consecutive pair of non-NaN boundary cells
\* gets two wall triangles on its top and base vertices, a pair with a NaN
\* endpoint none, and every wall triangle's normal points out of the solid:
\* +y on row 0, -y on the last row, -x on column 0, +x on the last column.
C13_WallsOutward ==
    (FacesWritten /\ add_base /\ nrows >= 2 /\ ncols >= 2) => WallsOnPairs(1)

\* What the code writes: the same triangles, every normal pointing into the
\* solid.
WallsInward ==
    (FacesWritten /\ add_base /\ nrows >= 2 /\ ncols >= 2) => WallsOnPairs(-1)

Holes == AllCells \ ValidCells

InteriorCell(c) ==
    /\ 0 < c[1] /\ c[1] < nrows - 1
    /\ 0 < c[2] /\ c[2] < ncols - 1

\* the grid written is at least 3x3 and its only NaN cell is an interior cell
OneInteriorHole ==
    /\ nrows >= 3 /\ ncols >= 3
    /\ Cardinality(Holes) = 1
    /\ \A c \in Holes : InteriorCell(c)

\* the top edges along the sides of the quads skipped for a NaN corner, both
\* ends being vertices
SkippedQuadEdges ==
    UNION {{{vertex_map[c[1]][c[2]], vertex_map[d[1]][d[2]]} :
              <<c, d>> \in {cd \in QuadCorners(q) \X QuadCorners(q) :
                              /\ cd[1] /= cd[2]
                              /\ (cd[1][1] = cd[2][1] \/ cd[1][2] = cd[2][2])
                              /\ cd[1] \in ValidCells /\ cd[2] \in ValidCells}} :
           q \in {q \in Quads : ~FullQuad(q)}}

\* C14: with add_base=True and a grid of at least 3x3 whose only NaN cell is
\* an interior cell, every wall face lies on a pair of boundary cells (none
\* around the hole), some edge along a skipped quad occurs in only one
\* emitted triangle (the surface is not closed), and no edge occurs in more
\* than two.
C14_InteriorHoleOpen ==
    (FacesWritten /\ add_base /\ OneInteriorHole) =>
        LET F == Faces
        IN  /\ \A k \in DOMAIN F :
                 IsWallFace(F[k]) =>
                    \E p \in BoundaryPairs : FaceIndices(F[k]) \subseteq PairIndices(p)
            /\ \E e \in SkippedQuadEdges : EdgeUse(F, e) = 1
            /\ \A e \in EdgesOf(F) : EdgeUse(F, e) <= 2

\* the 3x3 grid with the centre cell NaN: the four quads are skipped and the
\* sixteen wall triangles are all that is written
C14_Witness ==
    /\ FacesWritten /\ add_base /\ OneInteriorHole
    /\ nrows = 3 /\ ncols = 3
    /\ Holes = {<<1, 1>>}
    /\ Len(Faces) = 16
    /\ face_count = 16

\* the directed edges of a face, in emitted order
DirectedEdges(f) == {<<f[2], f[3]>>, <<f[3], f[4]>>, <<f[4], f[2]>>}

\* number of triangles of F the directed edge e is taken from
DirectedUse(F, e) == Cardinality({k \in DOMAIN F : e \in DirectedEdges(F[k])})

\* the top faces written for quad q
TopFacesOf(F, q) ==
    {k \in DOMAIN F :
        FaceIndices(F[k]) \subseteq {vertex_map[c[1]][c[2]] : c \in QuadCorners(q)}}

\* f is g moved to the base vertices by the fixed offset and turned round
ReversedCopy(f, g) ==
    LET off == base_vertex_start - 1
    IN  <<f[2], f[3], f[4]>> \in
            {<<g[2] + off, g[4] + off, g[3] + off>>,
             <<g[4] + off, g[3] + off, g[2] + off>>,
             <<g[3] + off, g[2] + off, g[4] + off>>}

\* C15: for every grid without NaN of at least two rows and two columns and
\* add_base=True, every directed edge (a, b) of the emitted top, base and wall
\* triangles is taken from exactly one triangle and its reverse (b, a) from
\* exactly one other, and each base triangle is the index-offset copy of a
\* top triangle of the same quad with its orientation reversed.
C15_ConsistentOrientation ==
    (FacesWritten /\ add_base /\ NoHoles /\ nrows >= 2 /\ ncols >= 2) =>
        LET F == Faces
        IN  /\ \A k \in DOMAIN F : \A e \in DirectedEdges(F[k]) :
                 /\ DirectedUse(F, e) = 1
                 /\ DirectedUse(F, <<e[2], e[1]>>) = 1
                 /\ <<e[2], e[1]>> \notin DirectedEdges(F[k])
            /\ \A k \in DOMAIN F :
                 (\A v \in FaceIndices(F[k]) : IsBaseIndex(v)) =>
                    \E q \in Quads : \E t \in TopFacesOf(F, q) :
                        ReversedCopy(F[k], F[t])

\* a 3x3 grid without NaN: 8 top, 8 base and 16 wall triangles, written whole
C15_Witness ==
    /\ FacesWritten /\ add_base /\ NoHoles
    /\ nrows = 3 /\ ncols = 3
    /\ Len(Faces) = 32
    /\ \E k \in DOMAIN Faces : \A v \in FaceIndices(Faces[k]) : IsBaseIndex(v)
    /\ \E k \in DOMAIN Faces : IsWallFace(Faces[k])

=============================================================================
